---- MODULE Spec2Model ----
(***************************************************************************)
(* A model of the landscape tuning code of slip (tuning.py).               *)
(*                                                                         *)
(* A landscape is a Potts-type energy model over sequences of a fixed      *)
(* length and alphabet.  tuning.py measures statistics of the landscape    *)
(* (singles, pairs of singles, epistasis residuals) and solves for four    *)
(* tuning parameters.  Each function of tuning.py is an operator here,     *)
(* computed as the code computes it, and each public entry point is an     *)
(* action that records the call and its outcome.                           *)
(*                                                                         *)
(* Numbers.  The code computes in IEEE floating point through numpy.  The  *)
(* model keeps exact values instead of rounded ones and keeps the IEEE     *)
(* outcomes of a division by zero: numpy scalars do not raise, x / 0 is an *)
(* infinity and 0 / 0 is NaN.  The sign of an infinity is not tracked.     *)
(***************************************************************************)
EXTENDS Integers, Sequences, FiniteSets, TLC

VARIABLES
    landscape,  \* the landscape under measurement: [field, coupling]
    call,       \* the entry point called last and its arguments
    result      \* what that call returned, or the error it ended in

vars == <<landscape, call, result>>

(***************************************************************************)
(* Bounds of the model.                                                    *)
(***************************************************************************)
\* The fields (single-mutant effects) of a landscape have total magnitude at
\* most this.
MaxFieldMass == 3
\* The couplings (pairwise terms) of a landscape have total magnitude at most
\* this.
MaxCouplingMass == 1
\* Target fractions are the multiples of 1 / TargetDen in [0, 1].
TargetDen == 2
\* Target epistatic horizons are 0 .. MaxHorizon.
MaxHorizon == 3
\* Thresholds handed to the statistics are 0 .. MaxThreshold.
MaxThreshold == 1
\* The fields and couplings together of the landscapes on which calls are
\* compared have total magnitude at most this.
MaxComparedMass == 1

(***************************************************************************)
(* Extended numbers: a finite value (n / d) / sqrt(r) with r = 1 for a     *)
(* rational, or one of the IEEE specials.  r > 1 is the non-square radicand*)
(* of the landscape's standard deviation of singles, the only irrational   *)
(* the code ever produces.                                                 *)
(***************************************************************************)
Abs(x) == IF x < 0 THEN -x ELSE x

RECURSIVE GCD(_, _)
GCD(a, b) == IF b = 0 THEN a ELSE GCD(b, a % b)

Raw(n, d, r) ==
    LET g == GCD(Abs(n), Abs(d))
        sg == IF d < 0 THEN -1 ELSE 1
    IN  IF n = 0 THEN [k |-> "fin", n |-> 0, d |-> 1, r |-> 1]
        ELSE [k |-> "fin", n |-> (sg * n) \div g, d |-> (sg * d) \div g, r |-> r]

Fin(n, d) == Raw(n, d, 1)
Int2Num(i) == Fin(i, 1)
INF == [k |-> "inf", n |-> 0, d |-> 1, r |-> 1]
NAN == [k |-> "nan", n |-> 0, d |-> 1, r |-> 1]
\* A finite sum of a rational and an irrational: it has no exact form here.
MIXED == [k |-> "mixed", n |-> 0, d |-> 1, r |-> 1]
\* Python's None, for an optional argument left unset.
None == [k |-> "none", n |-> 0, d |-> 1, r |-> 1]

IsFinite(x) == x.k = "fin"
IsZero(x) == x.k = "fin" /\ x.n = 0
IsNonFinite(x) == x.k \in {"inf", "nan"}
\* Python truthiness of an optional float: None and 0.0 are both falsy.
Truthy(x) == x.k # "none" /\ ~IsZero(x)

Neg(x) == IF x.k = "fin" THEN [x EXCEPT !.n = -x.n] ELSE x

Add(a, b) ==
    IF a.k = "nan" \/ b.k = "nan" THEN NAN
    ELSE IF a.k = "inf" \/ b.k = "inf" THEN INF
    ELSE IF a.k = "mixed" \/ b.k = "mixed" THEN MIXED
    ELSE IF IsZero(a) THEN b
    ELSE IF IsZero(b) THEN a
    ELSE IF a.r = b.r THEN Raw(a.n * b.d + b.n * a.d, a.d * b.d, a.r)
    ELSE MIXED

Sub(a, b) == Add(a, Neg(b))

Mul(a, b) ==
    IF a.k = "nan" \/ b.k = "nan" THEN NAN
    ELSE IF a.k = "inf" \/ b.k = "inf"
        THEN IF IsZero(a) \/ IsZero(b) THEN NAN ELSE INF
    ELSE IF a.k = "mixed" \/ b.k = "mixed"
        THEN IF IsZero(a) \/ IsZero(b) THEN Fin(0, 1) ELSE MIXED
    ELSE IF a.r = 1 THEN Raw(a.n * b.n, a.d * b.d, b.r)
    ELSE IF b.r = 1 THEN Raw(a.n * b.n, a.d * b.d, a.r)
    ELSE IF a.r = b.r THEN Raw(a.n * b.n, a.d * b.d * a.r, 1)
    ELSE MIXED

\* numpy's true division: no exception, x / 0 = inf, 0 / 0 = nan.
Div(a, b) ==
    IF a.k = "nan" \/ b.k = "nan" THEN NAN
    ELSE IF a.k = "inf" THEN (IF b.k = "inf" THEN NAN ELSE INF)
    ELSE IF b.k = "inf" THEN Fin(0, 1)
    ELSE IF IsZero(b) THEN (IF IsZero(a) THEN NAN ELSE INF)
    ELSE IF IsZero(a) THEN Fin(0, 1)
    ELSE IF a.k = "mixed" \/ b.k = "mixed" THEN MIXED
    ELSE IF a.r = b.r THEN Raw(a.n * b.d, a.d * b.n, 1)
    ELSE IF b.r = 1 THEN Raw(a.n * b.d, a.d * b.n, a.r)
    ELSE IF a.r = 1 THEN Raw(a.n * b.d * b.r, a.d * b.n, b.r)
    ELSE MIXED

\* x >= 0 and x < 0 on a finite value; every comparison with NaN is false.
GeqZero(x) == x.k = "fin" /\ x.n >= 0
LtZero(x) == x.k = "fin" /\ x.n < 0

RECURSIVE SumSeq(_)
SumSeq(s) == IF s = <<>> THEN 0 ELSE Head(s) + SumSeq(Tail(s))

\* The mean of a sequence of integers; numpy and pandas give NaN on none.
Mean(s) == IF s = <<>> THEN NAN ELSE Fin(SumSeq(s), Len(s))

\* The largest i with i * i <= x.
RECURSIVE ISqrtFrom(_, _)
ISqrtFrom(x, i) == IF (i + 1) * (i + 1) > x THEN i ELSE ISqrtFrom(x, i + 1)
ISqrt(x) == ISqrtFrom(x, 0)

\* np.std: the population standard deviation, sqrt(n * sum x^2 - (sum x)^2) / n.
Std(s) ==
    LET n == Len(s)
        sq == [i \in 1..n |-> s[i] * s[i]]
        v == n * SumSeq(sq) - SumSeq(s) * SumSeq(s)
        root == ISqrt(v)
    IN  IF n = 0 THEN NAN
        ELSE IF root * root = v THEN Fin(root, n)
        ELSE Mul(Fin(v, n), Raw(1, 1, v))

\* np.quantile(values, q), the default linear interpolation between order
\* statistics: the virtual index is q * (n - 1).
Quantile(values, q) ==
    LET n == Len(values)
        sorted == SortSeq(values, LAMBDA x, y : x < y)
        num == q.n * (n - 1)
        lo == num \div q.d
        rem == num % q.d
        hi == IF lo + 1 < n THEN lo + 1 ELSE lo
    IN  Fin(sorted[lo + 1] * q.d + rem * (sorted[hi + 1] - sorted[lo + 1]), q.d)

\* scipy.special.comb(K, 2): K (K - 1) / 2, and 0 when 2 > K or K < 0.
Comb2(K) ==
    IF K.n < 2 * K.d THEN Fin(0, 1)
    ELSE Div(Mul(K, Sub(K, Fin(1, 1))), Fin(2, 1))

(***************************************************************************)
(* The landscape (potts_model.PottsModel) and the helpers of sampling,     *)
(* utils and experiment that tuning.py calls.                              *)
(***************************************************************************)
\* The shape of the landscapes: two positions over a three-letter alphabet,
\* so that two singles can share a position.
Positions == 1..2
Vocab == 0..2

\* landscape.wildtype_sequence
wildtype_sequence == [i \in Positions |-> 0]

\* The substitutions away from the wildtype: <<position, symbol>>.
Substitutions == {<<i, a>> : i \in Positions, a \in Vocab \ {0}}
\* The pairs of substitutions at two positions: <<i, a, j, b>> with i < j.
PairKeys ==
    {<<x[1], x[2], y[1], y[2]>> : <<x, y>> \in
        {z \in Substitutions \X Substitutions : z[1][1] < z[2][1]}}

RECURSIVE SumOver(_, _)
SumOver(S, f) ==
    IF S = {} THEN 0
    ELSE LET x == CHOOSE y \in S : TRUE IN f[x] + SumOver(S \ {x}, f)

\* All the ways to spread a total magnitude of at most m over the keys.
RECURSIVE Spread(_, _)
Spread(keys, m) ==
    IF keys = {} THEN {<<>>}
    ELSE LET key == CHOOSE x \in keys : TRUE
         IN  UNION {{f @@ (key :> v) : f \in Spread(keys \ {key}, m - Abs(v))}
                        : v \in -m..m}

Fields == Spread(Substitutions, MaxFieldMass)
Couplings == Spread(PairKeys, MaxCouplingMass)
Landscapes == [field : Fields, coupling : Couplings]
\* The total magnitude of a field or coupling assignment.
Magnitude(f) == SumOver(DOMAIN f, [key \in DOMAIN f |-> Abs(f[key])])
ComparedLandscapes ==
    {l \in [field : Spread(Substitutions, MaxComparedMass),
            coupling : Spread(PairKeys, MaxComparedMass)] :
        Magnitude(l.field) + Magnitude(l.coupling) <= MaxComparedMass}

\* utils.get_mutation_positions(seq, wt_seq)
get_mutation_positions(seq, wt) == {i \in Positions : seq[i] # wt[i]}

\* utils.add_seqs(a, b, wt_seq)[0]: both sets of substitutions applied to the
\* wildtype.
add_seqs(a, b, wt) ==
    [i \in Positions |-> IF a[i] # wt[i] THEN a[i] ELSE b[i]]

\* landscape.evaluate(seq): the fitness relative to the wildtype, the sum of
\* the fields of the substitutions and the couplings of the pairs of them.
energy(l, seq, mut) ==
    SumOver(mut, [i \in mut |-> l.field[<<i, seq[i]>>]])
    + SumOver({p \in mut \X mut : p[1] < p[2]},
              [p \in mut \X mut |-> IF p[1] < p[2]
                   THEN l.coupling[<<p[1], seq[p[1]], p[2], seq[p[2]]>>] ELSE 0])

evaluate(l, seq) == energy(l, seq, get_mutation_positions(seq, wildtype_sequence))

\* sampling.get_all_single_mutants(wt_seq, vocab_size): every sequence that
\* differs from the wildtype at exactly one position, by position and symbol.
RECURSIVE SubstitutionList(_)
SubstitutionList(S) ==
    IF S = {} THEN <<>>
    ELSE LET first == CHOOSE x \in S : \A y \in S :
                 x[1] < y[1] \/ (x[1] = y[1] /\ x[2] <= y[2])
         IN  <<first>> \o SubstitutionList(S \ {first})

get_all_single_mutants(wt) ==
    LET subs == SubstitutionList(Substitutions)
    IN  [n \in 1..Len(subs) |->
            [i \in Positions |-> IF i = subs[n][1] THEN subs[n][2] ELSE wt[i]]]

\* experiment.get_fitness_df(seqs, evaluate, wt_seq): one row per sequence.
get_fitness_df(l, seqs) ==
    [n \in 1..Len(seqs) |-> [sequence |-> seqs[n], fitness |-> evaluate(l, seqs[n])]]

Column(df, name) == [n \in 1..Len(df) |-> df[n][name]]

(***************************************************************************)
(* Outcomes: a call returns a value or ends in a Python exception.         *)
(***************************************************************************)
Return(v) == [ok |-> TRUE, value |-> v, error |-> "none"]
Raise(e) == [ok |-> FALSE, value |-> None, error |-> e]

(***************************************************************************)
(* tuning.py.  Each function is an operator of the same name.  Where the   *)
(* code binds an intermediate value to a local and reads it several times, *)
(* the rest of the function is an operator (..._from) that takes the value.*)
(***************************************************************************)
\* The threshold test on a single's fitness.
Selected(f, threshold, adaptive) ==
    IF adaptive THEN f >= threshold ELSE f < threshold

\* df of get_doubles_df and get_mean_single_effect: every single mutant and
\* its fitness, in the enumerator's order.
all_singles == get_all_single_mutants(wildtype_sequence)
singles_df(l) == get_fitness_df(l, all_singles)

\* landscape.evaluate(all_singles)
single_fitness(l) == Column(singles_df(l), "fitness")

fraction_geq_zero(fitness) ==
    Div(Int2Num(Len(SelectSeq(fitness, LAMBDA f : f >= 0))), Int2Num(Len(fitness)))

get_fraction_adaptive_singles(l) == fraction_geq_zero(single_fitness(l))

\* itertools.combinations(s, 2): the pairs <<s[i], s[j]>>, i < j, in order.
RECURSIVE Combinations2(_)
Combinations2(s) ==
    IF Len(s) < 2 THEN <<>>
    ELSE [n \in 1..(Len(s) - 1) |-> <<s[1], s[n + 1]>>] \o Combinations2(Tail(s))

\* The check left out: every pair the loop visits is kept.
is_true_double_unchecked(a, b, wt) == TRUE

\* "check that this is a true double": a pair at one position is skipped.
is_true_double(a, b, wt) ==
    get_mutation_positions(a, wt) # get_mutation_positions(b, wt)

\* A residual that leaves out the second single's fitness.
double_row_without_b(double, fitness, a, b, a_fitness, b_fitness, wt_fitness) ==
    [sequence |-> double, fitness |-> fitness,
     single_a |-> a, single_b |-> b,
     a_fitness |-> a_fitness, b_fitness |-> b_fitness,
     residual |-> fitness - a_fitness + wt_fitness]

\* One row of doubles_df: the double and its fitness, the two singles (the
\* lists single_a and single_b), their fitness, and the residual.
double_row(double, fitness, a, b, a_fitness, b_fitness, wt_fitness) ==
    [sequence |-> double, fitness |-> fitness,
     single_a |-> a, single_b |-> b,
     a_fitness |-> a_fitness, b_fitness |-> b_fitness,
     residual |-> fitness - a_fitness - b_fitness + wt_fitness]

double_rows(l, kept, wt) ==
    [n \in 1..Len(kept) |->
        double_row(add_seqs(kept[n][1], kept[n][2], wt),
                   evaluate(l, add_seqs(kept[n][1], kept[n][2], wt)),
                   kept[n][1], kept[n][2],
                   evaluate(l, kept[n][1]), evaluate(l, kept[n][2]),
                   evaluate(l, wt))]

\* The singles get_doubles_df selects, in the enumerator's order.
selected_singles(l, threshold, adaptive) ==
    Column(SelectSeq(singles_df(l),
                     LAMBDA row : Selected(row.fitness, threshold, adaptive)),
           "sequence")

\* The pairs the loop keeps.
true_doubles(singles, wt) ==
    SelectSeq(Combinations2(singles), LAMBDA p : is_true_double(p[1], p[2], wt))

\* np.vstack of an empty list raises ValueError: with no pair appended the
\* call ends in that error and returns no table.  A table is its rows.
doubles_df_from(l, kept, wt) ==
    IF kept = <<>> THEN Raise("ValueError")
    ELSE Return([rows |-> double_rows(l, kept, wt)])

get_doubles_df(l, threshold, adaptive) ==
    doubles_df_from(l,
        true_doubles(selected_singles(l, threshold, adaptive), wildtype_sequence),
        wildtype_sequence)

reciprocal_rate(residual, adaptive) ==
    Div(Int2Num(Len(IF adaptive THEN SelectSeq(residual, LAMBDA r : r < 0)
                    ELSE SelectSeq(residual, LAMBDA r : r > 0))),
        Int2Num(Len(residual)))

epistasis_stats_from(doubles_df, adaptive) ==
    IF ~doubles_df.ok THEN doubles_df
    ELSE Return([mean_epistasis_effect |-> Mean(Column(doubles_df.value.rows, "residual")),
                 rate_reciprocal_epistasis |->
                     reciprocal_rate(Column(doubles_df.value.rows, "residual"), adaptive)])

get_epistasis_stats(l, threshold, adaptive) ==
    epistasis_stats_from(get_doubles_df(l, threshold, adaptive), adaptive)

get_mean_single_effect(l, threshold, adaptive) ==
    Mean(SelectSeq(single_fitness(l), LAMBDA f : Selected(f, threshold, adaptive)))

\* (e - 2 s) / e on the two means.
horizon_of(e, s) == Div(Sub(e, Mul(Int2Num(2), s)), e)

epistatic_horizon_from(stats, mean_adaptive_single) ==
    IF ~stats.ok THEN stats
    ELSE Return(horizon_of(stats.value.mean_epistasis_effect, mean_adaptive_single))

get_epistatic_horizon(l) ==
    epistatic_horizon_from(get_epistasis_stats(l, 0, TRUE),
                           get_mean_single_effect(l, 0, TRUE))

get_single_std(l) == Std(single_fitness(l))

landscape_stats_from(l, stats, horizon) ==
    IF ~stats.ok THEN stats
    ELSE IF ~horizon.ok THEN horizon
    ELSE Return([fraction_adaptive_singles |-> get_fraction_adaptive_singles(l),
                 reciprocal_adaptive_epistasis_effect |->
                     stats.value.mean_epistasis_effect,
                 fraction_reciprocal_adaptive_epistasis |->
                     stats.value.rate_reciprocal_epistasis,
                 epistatic_horizon |-> horizon.value,
                 std_singles |-> get_single_std(l)])

get_landscape_stats(l) ==
    landscape_stats_from(l, get_epistasis_stats(l, 0, TRUE), get_epistatic_horizon(l))

get_normalizing_field_scale(l) == Div(Int2Num(1), get_single_std(l))

get_single_mut_offset(l, fraction_adaptive_singles) ==
    Neg(Quantile(single_fitness(l), Sub(Int2Num(1), fraction_adaptive_singles)))

epi_offset_from(doubles_df, fraction_reciprocal_adaptive_epistasis) ==
    IF ~doubles_df.ok THEN doubles_df
    ELSE Return(Neg(Quantile(Column(doubles_df.value.rows, "fitness"),
                             fraction_reciprocal_adaptive_epistasis)))

get_epi_offset(l, fraction_reciprocal_adaptive_epistasis) ==
    epi_offset_from(get_doubles_df(l, 0, TRUE), fraction_reciprocal_adaptive_epistasis)

\* numerator / denominator of get_coupling_scale.
solve_coupling_scale(K, field_scale, mean_adaptive_single_effect, mean_epistasis_effect) ==
    Div(Mul(Mul(Neg(K), field_scale), mean_adaptive_single_effect),
        Mul(Comb2(K), mean_epistasis_effect))

coupling_scale_from(doubles_df, mean_single_effect, epistatic_horizon, field_scale, single_mut_offset, epi_offset) ==
    IF ~doubles_df.ok THEN doubles_df
    ELSE Return(solve_coupling_scale(
             epistatic_horizon, field_scale,
             Add(mean_single_effect, single_mut_offset),
             Add(Mean(Column(doubles_df.value.rows, "residual")), epi_offset)))

get_coupling_scale(l, epistatic_horizon, field_scale, single_mut_offset, epi_offset) ==
    coupling_scale_from(get_doubles_df(l, 0, TRUE), get_mean_single_effect(l, 0, TRUE),
                        epistatic_horizon, field_scale, single_mut_offset, epi_offset)

\* The four steps of get_tuning_kwargs, each on the values of the steps
\* before it.
tuning_step_normalize(l, normalize_to_singles) ==
    IF normalize_to_singles THEN get_normalizing_field_scale(l) ELSE Int2Num(1)

tuning_step_singles(l, fraction_adaptive_singles) ==
    IF Truthy(fraction_adaptive_singles)
    THEN get_single_mut_offset(l, fraction_adaptive_singles)
    ELSE Int2Num(0)

tuning_step_epistasis(l, fraction_reciprocal_adaptive_epistasis) ==
    IF Truthy(fraction_reciprocal_adaptive_epistasis)
    THEN get_epi_offset(l, fraction_reciprocal_adaptive_epistasis)
    ELSE Return(Int2Num(0))

\* A horizon step that solves against the identity values of the other
\* parameters instead of the ones the call has just solved.
tuning_step_horizon_from_defaults(l, epistatic_horizon, fs, smo, epo) ==
    IF ~epo.ok THEN epo
    ELSE IF Truthy(epistatic_horizon)
    THEN get_coupling_scale(l, epistatic_horizon, Int2Num(1), Int2Num(0), Int2Num(0))
    ELSE Return(Int2Num(1))

tuning_step_horizon(l, epistatic_horizon, fs, smo, epo) ==
    IF ~epo.ok THEN epo
    ELSE IF Truthy(epistatic_horizon)
    THEN get_coupling_scale(l, epistatic_horizon, fs, smo, epo.value)
    ELSE Return(Int2Num(1))

tuning_kwargs_from(printed, fs, smo, epo, cs) ==
    IF ~printed.ok THEN printed
    ELSE IF ~epo.ok THEN epo
    ELSE IF ~cs.ok THEN cs
    ELSE Return([coupling_scale |-> cs.value,
                 field_scale |-> fs,
                 single_mut_offset |-> smo,
                 epi_offset |-> epo.value])

tuning_steps(l, printed, fs, smo, epo, epistatic_horizon) ==
    tuning_kwargs_from(printed, fs, smo, epo,
                       tuning_step_horizon(l, epistatic_horizon, fs, smo, epo))

get_tuning_kwargs(l, fraction_adaptive_singles, fraction_reciprocal_adaptive_epistasis, epistatic_horizon, normalize_to_singles) ==
    tuning_steps(l, get_landscape_stats(l),
                 tuning_step_normalize(l, normalize_to_singles),
                 tuning_step_singles(l, fraction_adaptive_singles),
                 tuning_step_epistasis(l, fraction_reciprocal_adaptive_epistasis),
                 epistatic_horizon)

(***************************************************************************)
(* The state machine: a caller holds one landscape, calls one entry point  *)
(* of tuning.py at a time and drops the outcome before the next call.  No  *)
(* call changes the landscape.                                             *)
(***************************************************************************)
Idle == [op |-> "idle"]

Thresholds == 0..MaxThreshold
Fractions == {Fin(n, TargetDen) : n \in 0..TargetDen}
Horizons == {Int2Num(n) : n \in 0..MaxHorizon}
OptFractions == {None} \cup Fractions
OptHorizons == {None} \cup Horizons

Init ==
    /\ landscape \in Landscapes
    /\ call = Idle
    /\ result = Return(None)

GetDoublesDf ==
    /\ call = Idle
    /\ \E threshold \in Thresholds, adaptive \in BOOLEAN :
        /\ call' = [op |-> "get_doubles_df", threshold |-> threshold,
                    adaptive |-> adaptive]
        /\ result' = get_doubles_df(landscape, threshold, adaptive)
    /\ UNCHANGED landscape

GetEpistasisStats ==
    /\ call = Idle
    /\ \E threshold \in Thresholds, adaptive \in BOOLEAN :
        /\ call' = [op |-> "get_epistasis_stats", threshold |-> threshold,
                    adaptive |-> adaptive]
        /\ result' = get_epistasis_stats(landscape, threshold, adaptive)
    /\ UNCHANGED landscape

GetEpistaticHorizon ==
    /\ call = Idle
    /\ call' = [op |-> "get_epistatic_horizon"]
    /\ result' = get_epistatic_horizon(landscape)
    /\ UNCHANGED landscape

GetLandscapeStats ==
    /\ call = Idle
    /\ call' = [op |-> "get_landscape_stats"]
    /\ result' = get_landscape_stats(landscape)
    /\ UNCHANGED landscape

GetTuningKwargs ==
    /\ call = Idle
    /\ \E p \in OptFractions, q \in OptFractions, K \in OptHorizons,
          normalize \in BOOLEAN :
        /\ call' = [op |-> "get_tuning_kwargs",
                    fraction_adaptive_singles |-> p,
                    fraction_reciprocal_adaptive_epistasis |-> q,
                    epistatic_horizon |-> K,
                    normalize_to_singles |-> normalize]
        /\ result' = get_tuning_kwargs(landscape, p, q, K, normalize)
    /\ UNCHANGED landscape

\* The caller is done with the outcome; the landscape is as it was.
Drop ==
    /\ call # Idle
    /\ call' = Idle
    /\ result' = Return(None)
    /\ UNCHANGED landscape

\* The statistics engine.
NextStats ==
    \/ GetEpistaticHorizon
    \/ GetLandscapeStats
    \/ GetDoublesDf
    \/ GetEpistasisStats
    \/ Drop

\* The calibration solver.
NextTuning ==
    \/ GetTuningKwargs
    \/ Drop

Next == NextTuning \/ NextStats

Spec == Init /\ [][Next]_vars
SpecStats == Init /\ [][NextStats]_vars
SpecTuning == Init /\ [][NextTuning]_vars

\* The calibration solver on the landscapes of small total magnitude, where
\* every call is compared with other calls on the same landscape.
InitCompared ==
    /\ landscape \in ComparedLandscapes
    /\ call = Idle
    /\ result = Return(None)

SpecCompared == InitCompared /\ [][NextTuning]_vars

(***************************************************************************)
(* The tuned landscape.  The caller builds a new PottsModel from the       *)
(* returned parameters: every field becomes field_scale * (field +         *)
(* single_mut_offset) and every coupling coupling_scale * (coupling +      *)
(* epi_offset).                                                            *)
(***************************************************************************)
Tuning == call.op = "get_tuning_kwargs"
Kwargs == result.value

\* Whether a single of untuned fitness f is adaptive (>= 0) once tuned.  The
\* field scale is 1, 1 / std > 0 or +inf (1 / +0.0), and inf * 0 is NaN.
tuned_single_adaptive(f, kw) ==
    IF IsFinite(kw.field_scale) THEN GeqZero(Add(Int2Num(f), kw.single_mut_offset))
    ELSE ~IsZero(Add(Int2Num(f), kw.single_mut_offset))
         /\ GeqZero(Add(Int2Num(f), kw.single_mut_offset))

\* The fitness of every single after the offset alone is added to it.
shifted_single_adaptive(f, offset) == GeqZero(Add(Int2Num(f), offset))

\* The residual of a pair on the tuned landscape.
tuned_residual(r, kw) == Mul(kw.coupling_scale, Add(Int2Num(r), kw.epi_offset))

\* The two means of the tuned landscape's horizon and the horizon itself.
tuned_mean_single(l, kw) ==
    Mul(kw.field_scale, Add(get_mean_single_effect(l, 0, TRUE), kw.single_mut_offset))
tuned_mean_epistasis(l, kw) ==
    Mul(kw.coupling_scale,
        Add(get_epistasis_stats(l, 0, TRUE).value.mean_epistasis_effect, kw.epi_offset))
tuned_epistatic_horizon(l, kw) ==
    horizon_of(tuned_mean_epistasis(l, kw), tuned_mean_single(l, kw))

\* |x - target| <= 1 / n
WithinQuantum(x, target, n) ==
    IsFinite(Sub(x, target)) /\ Abs(Sub(x, target).n) * n <= Sub(x, target).d

(***************************************************************************)
(* Claims about the calibration solver (SpecTuning).                       *)
(***************************************************************************)
\* num_singles as the tests count it: sequence_length * vocab_size.
num_singles == Cardinality(Positions) * Cardinality(Vocab)

\* C1: for every landscape and every target fraction p in [0, 1], the
\* single_mut_offset that get_tuning_kwargs returns, added to every single's
\* fitness, leaves a fraction of singles at or above zero that is within
\* 1 / num_singles of p.
C1_AdaptiveFractionMeetsTarget ==
    (Tuning /\ result.ok /\ call.fraction_adaptive_singles # None) =>
        WithinQuantum(
            Fin(Len(SelectSeq(single_fitness(landscape),
                    LAMBDA f : shifted_single_adaptive(f, Kwargs.single_mut_offset))),
                Len(single_fitness(landscape))),
            call.fraction_adaptive_singles, num_singles)

\* C2: a target fraction of exactly 0.0 is a set target: the returned
\* single_mut_offset is -quantile(all single fitness, 1.0), not the default.
C2_ZeroTargetRunsOffsetStep ==
    (Tuning /\ result.ok /\ call.fraction_adaptive_singles = Int2Num(0)) =>
        Kwargs.single_mut_offset = Neg(Quantile(single_fitness(landscape), Int2Num(1)))

\* C3: with all three targets unset and normalize_to_singles false the call
\* completes on every landscape and returns the identity parameters, and in
\* every returned mapping a parameter whose target is unset has its default.
C3_UnsetTargetsKeepDefaults ==
    Tuning =>
        /\ (/\ call.fraction_adaptive_singles = None
            /\ call.fraction_reciprocal_adaptive_epistasis = None
            /\ call.epistatic_horizon = None
            /\ ~call.normalize_to_singles)
           => /\ result.ok
              /\ Kwargs = [coupling_scale |-> Int2Num(1), field_scale |-> Int2Num(1),
                           single_mut_offset |-> Int2Num(0), epi_offset |-> Int2Num(0)]
        /\ result.ok =>
              /\ call.fraction_adaptive_singles = None
                    => Kwargs.single_mut_offset = Int2Num(0)
              /\ call.fraction_reciprocal_adaptive_epistasis = None
                    => Kwargs.epi_offset = Int2Num(0)
              /\ call.epistatic_horizon = None => Kwargs.coupling_scale = Int2Num(1)
              /\ ~call.normalize_to_singles => Kwargs.field_scale = Int2Num(1)

\* C4: for every landscape and every target horizon K >= 2 the returned
\* parameters reproduce the target: the epistatic horizon of the tuned
\* landscape equals K.
C4_TunedHorizonEqualsTarget ==
    (/\ Tuning /\ result.ok
     /\ call.epistatic_horizon # None
     /\ call.epistatic_horizon.n >= 2 * call.epistatic_horizon.d) =>
        tuned_epistatic_horizon(landscape, Kwargs) = call.epistatic_horizon

\* The rows of adaptive pairs whose singles are still adaptive once tuned.
tuned_adaptive_rows(l, kw) ==
    SelectSeq(get_doubles_df(l, 0, TRUE).value.rows,
              LAMBDA row : /\ tuned_single_adaptive(row.a_fitness, kw)
                           /\ tuned_single_adaptive(row.b_fitness, kw))

\* C5: called with a target reciprocal-epistasis fraction q alone, the
\* returned epi_offset gives the tuned landscape a fraction of adaptive pairs
\* with negative residual within 1 / num_adaptive_double_pairs of q.
C5_ReciprocalFractionMeetsTarget ==
    (/\ Tuning /\ result.ok
     /\ call.fraction_reciprocal_adaptive_epistasis # None
     /\ call.fraction_adaptive_singles = None
     /\ call.epistatic_horizon = None) =>
        /\ tuned_adaptive_rows(landscape, Kwargs) # <<>>
        /\ WithinQuantum(
               Fin(Len(SelectSeq(tuned_adaptive_rows(landscape, Kwargs),
                       LAMBDA row : LtZero(tuned_residual(row.residual, Kwargs)))),
                   Len(tuned_adaptive_rows(landscape, Kwargs))),
               call.fraction_reciprocal_adaptive_epistasis,
               Len(tuned_adaptive_rows(landscape, Kwargs)))

\* C6: when every single has the same fitness, get_tuning_kwargs with
\* normalize_to_singles ends in a DomainError and returns no parameters.
C6_ZeroVarianceIsDomainError ==
    (Tuning /\ call.normalize_to_singles /\ IsZero(get_single_std(landscape))) =>
        ~result.ok /\ result.error = "DomainError"

\* The horizon step of a call is undefined: a horizon target is given and the
\* denominator C(K, 2) * (mean epistasis + epi_offset) is zero.
horizon_step_undefined(l, K, q) ==
    /\ K # None
    /\ get_doubles_df(l, 0, TRUE).ok
    /\ IsZero(Mul(Comb2(K),
                  Add(get_epistasis_stats(l, 0, TRUE).value.mean_epistasis_effect,
                      tuning_step_epistasis(l, q).value)))

\* C7: when a set target makes its substep undefined the call fails and
\* returns nothing, and a returned coupling_scale is never NaN or infinite.
C7_UndefinedSubstepFailsCall ==
    Tuning =>
        /\ horizon_step_undefined(landscape, call.epistatic_horizon,
                                  call.fraction_reciprocal_adaptive_epistasis)
              => ~result.ok
        /\ result.ok => ~IsNonFinite(Kwargs.coupling_scale)

\* The left side of the equation get_coupling_scale solves, on the means of
\* the untuned landscape: K fs (s + smo) + C(K, 2) cs (e + epo).
horizon_equation(l, K, kw) ==
    Add(Mul(Mul(K, kw.field_scale),
            Add(get_mean_single_effect(l, 0, TRUE), kw.single_mut_offset)),
        Mul(Mul(Comb2(K), kw.coupling_scale),
            Add(get_epistasis_stats(l, 0, TRUE).value.mean_epistasis_effect,
                kw.epi_offset)))

\* C11: for a target horizon K the coupling_scale of a returned mapping
\* solves K * field_scale * (mean single + single_mut_offset)
\* + C(K, 2) * coupling_scale * (mean epistasis + epi_offset) = 0 with the
\* field_scale and offsets of the same mapping.
C11_CouplingScaleSolvesEquation ==
    (Tuning /\ result.ok /\ Truthy(call.epistatic_horizon)) =>
        IsZero(horizon_equation(landscape, call.epistatic_horizon, Kwargs))

(***************************************************************************)
(* Claims about the statistics engine (SpecStats).                         *)
(***************************************************************************)
\* The single mutants as a set, and the position each one mutates.
SingleSet == {all_singles[n] : n \in 1..Len(all_singles)}
MutatedPosition(seq) == CHOOSE i \in Positions : seq[i] # wildtype_sequence[i]

\* The singles that pass the threshold test of the call.
Qualifying(threshold, adaptive) ==
    {a \in SingleSet : IF adaptive THEN evaluate(landscape, a) >= threshold
                       ELSE evaluate(landscape, a) < threshold}

\* The unordered pairs of qualifying singles at two different positions.
DistinctPositionPairs(threshold, adaptive) ==
    {{a, b} : <<a, b>> \in
        {z \in Qualifying(threshold, adaptive) \X Qualifying(threshold, adaptive) :
            MutatedPosition(z[1]) # MutatedPosition(z[2])}}

\* C8: get_doubles_df returns an empty table, and no error, whenever fewer
\* than two singles qualify or no qualifying pair is at distinct positions.
C8_NoPairGivesEmptyTable ==
    (/\ call.op = "get_doubles_df"
     /\ DistinctPositionPairs(call.threshold, call.adaptive) = {}) =>
        result.ok /\ result.value.rows = <<>>

\* C9: get_epistatic_horizon ends in a DomainError whenever the mean
\* residual over the adaptive pairs is zero, and never returns NaN or an
\* infinite horizon.
C9_ZeroMeanEpistasisIsDomainError ==
    call.op = "get_epistatic_horizon" =>
        /\ (/\ get_epistasis_stats(landscape, 0, TRUE).ok
            /\ IsZero(get_epistasis_stats(landscape, 0, TRUE).value.mean_epistasis_effect))
           => ~result.ok /\ result.error = "DomainError"
        /\ result.ok => ~IsNonFinite(result.value)

\* The rows of the returned table that were formed from the pair {a, b}.
RowsOf(rows, pair) ==
    {n \in 1..Len(rows) : {rows[n].single_a, rows[n].single_b} = pair}

\* C10: every row of the table get_doubles_df returns combines two
\* qualifying singles at distinct positions, every unordered pair of
\* qualifying singles at distinct positions has exactly one row, and the
\* a_fitness and b_fitness of a row are the fitness of its two singles.
C10_RowsAreDistinctPositionPairs ==
    (call.op = "get_doubles_df" /\ result.ok) =>
        /\ \A n \in 1..Len(result.value.rows) :
            LET row == result.value.rows[n] IN
            /\ row.single_a \in Qualifying(call.threshold, call.adaptive)
            /\ row.single_b \in Qualifying(call.threshold, call.adaptive)
            /\ MutatedPosition(row.single_a) # MutatedPosition(row.single_b)
            /\ row.a_fitness = evaluate(landscape, row.single_a)
            /\ row.b_fitness = evaluate(landscape, row.single_b)
            /\ row.sequence[MutatedPosition(row.single_a)]
                   = row.single_a[MutatedPosition(row.single_a)]
            /\ row.sequence[MutatedPosition(row.single_b)]
                   = row.single_b[MutatedPosition(row.single_b)]
        /\ \A pair \in DistinctPositionPairs(call.threshold, call.adaptive) :
            Cardinality(RowsOf(result.value.rows, pair)) = 1

\* A table was returned although two qualifying singles share a position.
C10_Witness ==
    /\ call.op = "get_doubles_df" /\ result.ok
    /\ Len(result.value.rows) >= 2
    /\ \E a, b \in Qualifying(call.threshold, call.adaptive) :
          a # b /\ MutatedPosition(a) = MutatedPosition(b)

\* The row get_doubles_df builds when the loop hands it the pair (a, b).
row_of_pair(l, a, b) ==
    double_rows(l, <<(<<a, b>>)>>, wildtype_sequence)[1]

\* fitness(double) - fitness(a) - fitness(b) + fitness(wildtype), from the
\* evaluator alone.
epistasis_residual(l, a, b) ==
    evaluate(l, add_seqs(a, b, wildtype_sequence)) - evaluate(l, a) - evaluate(l, b)
        + evaluate(l, wildtype_sequence)

\* The rows built from a pair in its two orders agree, on the given residual.
same_double(ab, ba, residual) ==
    /\ ab.sequence = ba.sequence
    /\ ab.fitness = ba.fitness
    /\ ab.residual = ba.residual
    /\ ab.residual = residual

\* C12: the residual of every row of the table get_doubles_df returns is
\* fitness(double) - fitness(a) - fitness(b) + fitness(wildtype), and for any
\* two singles at distinct positions the row built from (a, b) and the row
\* built from (b, a) have the same double, the same fitness and the same
\* residual.
C12_ResidualIsOrderIndependent ==
    (call.op = "get_doubles_df" /\ result.ok) =>
        /\ \A n \in 1..Len(result.value.rows) :
            /\ result.value.rows[n].residual
                   = epistasis_residual(landscape, result.value.rows[n].single_a,
                                        result.value.rows[n].single_b)
            /\ result.value.rows[n].residual
                   = row_of_pair(landscape, result.value.rows[n].single_b,
                                 result.value.rows[n].single_a).residual
        /\ \A a, b \in SingleSet :
            MutatedPosition(a) # MutatedPosition(b) =>
                same_double(row_of_pair(landscape, a, b), row_of_pair(landscape, b, a),
                            epistasis_residual(landscape, a, b))

\* A table was returned with a row of nonzero residual whose two singles
\* differ in fitness, so that the order of the pair could matter.
C12_Witness ==
    /\ call.op = "get_doubles_df" /\ result.ok
    /\ \E n \in 1..Len(result.value.rows) :
          /\ result.value.rows[n].residual # 0
          /\ result.value.rows[n].a_fitness # result.value.rows[n].b_fitness

(***************************************************************************)
(* Claims about calls compared on one landscape (SpecCompared).            *)
(***************************************************************************)
\* What get_tuning_kwargs returns on the same landscape when only one target
\* is given and every other argument is left unset (normalize_to_singles
\* false).
only_normalize(l, normalize_to_singles) ==
    get_tuning_kwargs(l, None, None, None, normalize_to_singles).value
only_singles(l, fraction_adaptive_singles) ==
    get_tuning_kwargs(l, fraction_adaptive_singles, None, None, FALSE).value
only_epistasis(l, fraction_reciprocal_adaptive_epistasis) ==
    get_tuning_kwargs(l, None, fraction_reciprocal_adaptive_epistasis, None, FALSE).value
only_horizon(l, epistatic_horizon) ==
    get_tuning_kwargs(l, None, None, epistatic_horizon, FALSE).value

\* field_scale, single_mut_offset and epi_offset are what the call with that
\* target alone returns for them.
three_parameters_independent ==
    /\ Kwargs.field_scale
           = only_normalize(landscape, call.normalize_to_singles).field_scale
    /\ Kwargs.single_mut_offset
           = only_singles(landscape, call.fraction_adaptive_singles).single_mut_offset
    /\ Kwargs.epi_offset
           = only_epistasis(landscape,
                            call.fraction_reciprocal_adaptive_epistasis).epi_offset

\* C13 as stated: each of the four returned parameters depends only on the
\* untuned landscape and on its own target, so it equals what the call with
\* that target alone returns.
C13_ParametersIndependent ==
    (Tuning /\ result.ok) =>
        /\ three_parameters_independent
        /\ Kwargs.coupling_scale
               = only_horizon(landscape, call.epistatic_horizon).coupling_scale

\* C13 amended: field_scale, single_mut_offset and epi_offset depend only on
\* the untuned landscape and their own target; coupling_scale is solved on
\* the untuned landscape from its target and from the field_scale,
\* single_mut_offset and epi_offset of the same call.
C13_OnlyCouplingScaleDepends ==
    (Tuning /\ result.ok) =>
        /\ three_parameters_independent
        /\ Kwargs.coupling_scale
               = IF Truthy(call.epistatic_horizon)
                 THEN get_coupling_scale(landscape, call.epistatic_horizon,
                                         Kwargs.field_scale, Kwargs.single_mut_offset,
                                         Kwargs.epi_offset).value
                 ELSE Int2Num(1)

\* A call with every target set and normalize_to_singles on returned a
\* finite, nonzero coupling_scale that differs from the one the horizon
\* target alone gives.
C13_Witness ==
    /\ Tuning /\ result.ok
    /\ call.normalize_to_singles
    /\ Truthy(call.fraction_adaptive_singles)
    /\ Truthy(call.fraction_reciprocal_adaptive_epistasis)
    /\ Truthy(call.epistatic_horizon)
    /\ IsFinite(Kwargs.coupling_scale) /\ ~IsZero(Kwargs.coupling_scale)
    /\ Kwargs.coupling_scale
           # only_horizon(landscape, call.epistatic_horizon).coupling_scale

====
